---- MODULE Spec2Model ----
(***************************************************************************)
(* Model of the client-side data-window store (DataStore.ts) and of the   *)
(* scroll trigger of the table component (DataTable.handleScroll).        *)
(*                                                                         *)
(* Record counts are scaled by 1000: one model record stands for a block  *)
(* of 1000 rows, so maxRecords = 3000 is 3 and the page size 1000 is 1.   *)
(* An unset (undefined) number of the TablePaginationConfig is 0: the     *)
(* code only ever reads these through `x || default`, which treats        *)
(* undefined and 0 alike.                                                  *)
(***************************************************************************)
EXTENDS Integers, Sequences, FiniteSets, TLC

VARIABLES
    data,          \* DataStore.data
    loading,       \* DataStore.loading
    error,         \* DataStore.error
    pagination,    \* DataStore.pagination {current, pageSize, total}
    filters,       \* DataStore.filters
    sorts,         \* DataStore.sorts
    globalSearch,  \* DataStore.globalSearch
    isFetching,    \* DataStore.isFetching
    requests,      \* fetch() calls awaiting their response, oldest first
    timers,        \* pending call of each debounced setter
    events,        \* UI events handled so far
    last           \* history: the operation that produced this state

store == <<data, loading, error, pagination, filters, sorts, globalSearch, isFetching>>
vars == <<data, loading, error, pagination, filters, sorts, globalSearch, isFetching,
          requests, timers, events, last>>

----------------------------------------------------------------------------
(* Bounds of the model *)

DatasetSize == 5      \* records the remote dataset holds
MaxResp == 2          \* longest response body
MaxEvents == 3        \* UI events (method calls from the component) in one run
MaxWindowEvents == 5  \* UI events in one run against the page-honouring service

(* Program constants *)

maxRecords == 3             \* maxRecords = 3000
InitialPageSize == 1        \* pagination.pageSize: 1000
DefaultPageSize == 1        \* pageSize || 1000
NearBottom == 100           \* scrollHeight - (scrollTop + clientHeight) < 100
FiltersWait == 300
SortsWait == 300
SearchWait == 500

Null == "null"
Unset == 0

----------------------------------------------------------------------------
(* Input domains *)

FilterValues == {<<>>, <<"name">>}
SortValues == {<<>>, <<"id">>}
SearchValues == {"", "a"}
Currents == {1, 2}
PageSizes == {Unset, 1, 2}
WindowPageSizes == {Unset, 1, maxRecords, maxRecords + 1}
Totals == {Unset, DatasetSize}
Remainders == {NearBottom - 1, NearBottom}

Min(a, b) == IF a < b THEN a ELSE b
Max(a, b) == IF a > b THEN a ELSE b

----------------------------------------------------------------------------
(* The store and the network as one value, so that a method's statements  *)
(* compose in program order.                                              *)

World ==
    [data |-> data, loading |-> loading, error |-> error, pagination |-> pagination,
     filters |-> filters, sorts |-> sorts, globalSearch |-> globalSearch,
     isFetching |-> isFetching, requests |-> requests]

Commit(w) ==
    /\ data' = w.data
    /\ loading' = w.loading
    /\ error' = w.error
    /\ pagination' = w.pagination
    /\ filters' = w.filters
    /\ sorts' = w.sorts
    /\ globalSearch' = w.globalSearch
    /\ isFetching' = w.isFetching
    /\ requests' = w.requests

NoReq ==
    [kind |-> "none", offset |-> 0, limit |-> 0, filters |-> <<>>,
     sorts |-> <<>>, search |-> "", before |-> <<>>, alone |-> FALSE,
     stale |-> FALSE]
NoResult == [data |-> <<>>, total |-> 0]

\* fetch(url, {body}): the request joins those in flight. `before` (the cache
\* when the method was called) and `alone` (no other request in flight during
\* its life) are history fields, and so is `stale` (a full refresh replaced
\* the cache while this scroll-load was in flight).
Issue(reqs, r) ==
    Append([i \in 1..Len(reqs) |-> [reqs[i] EXCEPT !.alone = FALSE]],
           [r EXCEPT !.alone = (reqs = <<>>)])

Remove(reqs, i) == [j \in 1..(Len(reqs) - 1) |-> IF j < i THEN reqs[j] ELSE reqs[j + 1]]

\* the request issued last
Newest(reqs) == reqs[Len(reqs)]

\* history: the scroll-loads still in flight when a full refresh succeeds
Superseded(reqs) == [j \in 1..Len(reqs) |-> [reqs[j] EXCEPT !.stale = TRUE]]

\* Array.prototype.slice(start) with one argument
slice(s, start) ==
    LET len == Len(s)
        k == IF start < 0 THEN Max(len + start, 0) ELSE Min(start, len)
    IN  SubSeq(s, k + 1, len)

----------------------------------------------------------------------------
(* DataStore methods *)

\* fetchData past its guard, up to `await fetch(...)`
fetchDataStart(w) ==
    LET current == w.pagination.current
        pageSize == w.pagination.pageSize
        offset == ((IF current # Unset THEN current ELSE 1) - 1)
                     * (IF pageSize # Unset THEN pageSize ELSE DefaultPageSize)
    IN  [w EXCEPT !.isFetching = TRUE,
                  !.loading = TRUE,
                  !.error = Null,
                  !.requests = Issue(@, [kind |-> "full",
                                         offset |-> offset, limit |-> pageSize,
                                         filters |-> w.filters, sorts |-> w.sorts,
                                         search |-> w.globalSearch,
                                         before |-> w.data, alone |-> TRUE,
                      stale |-> FALSE])]

\* mutant: the busy guard is missing
fetchDataUnguarded(w) == fetchDataStart(w)

\* mutant: the prior error is not cleared when a fetch starts
fetchDataKeepsError(w) ==
    IF w.isFetching THEN w ELSE [fetchDataStart(w) EXCEPT !.error = w.error]

fetchData(w) ==
    IF w.isFetching THEN w ELSE fetchDataStart(w)

setPagination(w, p) == fetchData([w EXCEPT !.pagination = p])

\* mutant: the filters setter does not go back to the first page
onFiltersKeepsPage(w, f) ==
    fetchData([w EXCEPT !.filters = f])

onFilters(w, f) ==
    fetchData([w EXCEPT !.filters = f, !.pagination.current = 1])

onSorts(w, s) ==
    fetchData([w EXCEPT !.sorts = s])

onGlobalSearch(w, s) ==
    fetchData([w EXCEPT !.globalSearch = s, !.pagination.current = 1])

\* mutant: the trim keeps the oldest items instead of the newest
handleScrollLoadKeepsHead(w, offset, limit) ==
    LET w1 == IF Len(w.data) >= maxRecords
              THEN [w EXCEPT !.data = SubSeq(@, 1, Max(0, maxRecords - limit))]
              ELSE w
    IN  [w1 EXCEPT !.requests = Issue(@, [kind |-> "scroll",
                                           offset |-> offset, limit |-> limit,
                                           filters |-> w.filters, sorts |-> w.sorts,
                                           search |-> w.globalSearch,
                                           before |-> w.data, alone |-> TRUE,
                      stale |-> FALSE])]

\* mutant: the trim before the request is missing
handleScrollLoadNoTrim(w, offset, limit) ==
    [w EXCEPT !.requests = Issue(@, [kind |-> "scroll",
                                     offset |-> offset, limit |-> limit,
                                     filters |-> w.filters, sorts |-> w.sorts,
                                     search |-> w.globalSearch,
                                     before |-> w.data, alone |-> TRUE,
                                     stale |-> FALSE])]

\* mutant: a scroll-load is dropped while another one is in flight
handleScrollLoadGuarded(w, offset, limit) ==
    IF \E i \in DOMAIN w.requests : w.requests[i].kind = "scroll"
    THEN w
    ELSE LET w1 == IF Len(w.data) >= maxRecords
                   THEN [w EXCEPT !.data = slice(@, (-maxRecords) + limit)]
                   ELSE w
         IN  [w1 EXCEPT !.requests = Issue(@, [kind |-> "scroll",
                                                offset |-> offset, limit |-> limit,
                                                filters |-> w.filters, sorts |-> w.sorts,
                                                search |-> w.globalSearch,
                                                before |-> w.data, alone |-> TRUE,
                      stale |-> FALSE])]

handleScrollLoad(w, offset, limit) ==
    LET w1 == IF Len(w.data) >= maxRecords
              THEN [w EXCEPT !.data = slice(@, (-maxRecords) + limit)]
              ELSE w
    IN  [w1 EXCEPT !.requests = Issue(@, [kind |-> "scroll",
                                           offset |-> offset, limit |-> limit,
                                           filters |-> w.filters, sorts |-> w.sorts,
                                           search |-> w.globalSearch,
                                           before |-> w.data, alone |-> TRUE,
                      stale |-> FALSE])]

\* mutant: a full refresh keeps at most maxRecords items of the answer
fetchDataDoneEvicts(w, result) ==
    [w EXCEPT !.data = slice(result.data, -maxRecords),
              !.pagination.total = result.total,
              !.loading = FALSE,
              !.isFetching = FALSE]

\* mutant: the success path forgets to clear loading
fetchDataDoneKeepsLoading(w, result) ==
    [w EXCEPT !.data = result.data,
              !.pagination.total = result.total,
              !.isFetching = FALSE]

\* fetchData after `await response.json()` resolved: try body, then finally
fetchDataDone(w, result) ==
    [w EXCEPT !.data = result.data,
              !.pagination.total = result.total,
              !.loading = FALSE,
              !.isFetching = FALSE]

\* mutant: the busy flag is cleared on the success path only (no finally)
fetchDataCatchKeepsBusy(w, message) ==
    [w EXCEPT !.error = message,
              !.loading = FALSE]

\* mutant: a failed refresh empties the cache
fetchDataCatchClearsData(w, message) ==
    [w EXCEPT !.data = <<>>,
              !.error = message,
              !.loading = FALSE,
              !.isFetching = FALSE]

\* fetchData when an await rejected or the status was not ok: catch, then finally
fetchDataCatch(w, message) ==
    [w EXCEPT !.error = message,
              !.loading = FALSE,
              !.isFetching = FALSE]

handleScrollLoadDone(w, result) ==
    [w EXCEPT !.data = @ \o result.data,
              !.pagination.total = result.total]

\* mutant: a failed scroll-load is reported like a failed refresh
handleScrollLoadCatchSetsError(w, message) == [w EXCEPT !.error = message]

handleScrollLoadCatch(w, message) == w

----------------------------------------------------------------------------
(* debounce(fn, wait) of ../utils/debounce.ts: one timer per wrapped      *)
(* function. `pending` is <<>> when no timer is set and <<args>> when the *)
(* timer is set to run fn(args) after `wait` ms. A call clears the timer  *)
(* and sets it anew; time is not measured: a call arrives within the      *)
(* quiet period exactly when it arrives before the timer has fired.       *)
(* `calls` is history: the calls made since the timer last fired.         *)

debounceCall(t, args) == [t EXCEPT !.pending = <<args>>, !.calls = @ + 1]

debounceFired(t) == [t EXCEPT !.pending = <<>>, !.calls = 0]

----------------------------------------------------------------------------
(* The remote dataset service: an answer to a request is a run of the     *)
(* dataset starting at the requested offset, of any length up to MaxResp  *)
(* (whatever limit was asked), and the dataset's size as total. Record k  *)
(* of the dataset is the number k.                                        *)

Answers(r) ==
    { [data |-> [k \in 1..n |-> r.offset + k], total |-> DatasetSize] :
        n \in 0..Max(0, Min(MaxResp, DatasetSize - r.offset)) }

HttpStatusError == "HTTP error! status: 500"
NetworkError == "Failed to fetch"
DecodeError == "Unexpected token"

----------------------------------------------------------------------------
(* History of the last operation: its name, whether its fetchData call    *)
(* (or its scroll-load) was dropped, its argument, for a debounced        *)
(* function the number of calls its run answers, and for a completed      *)
(* request the request and the answer.                                    *)

Event(op, dropped, arg, req, result) ==
    [op |-> op, dropped |-> dropped, arg |-> arg, burst |-> 0, req |-> req,
     result |-> result, run |-> <<>>]

Call(op, dropped, arg) == Event(op, dropped, arg, NoReq, NoResult)

Fired(op, dropped, arg, n) == [Call(op, dropped, arg) EXCEPT !.burst = n]

UIEvent ==
    /\ events < MaxEvents
    /\ events' = events + 1

Init ==
    /\ data = <<>>
    /\ loading = FALSE
    /\ error = Null
    /\ pagination = [current |-> 1, pageSize |-> InitialPageSize, total |-> 0]
    /\ filters = <<>>
    /\ sorts = <<>>
    /\ globalSearch = ""
    /\ isFetching = FALSE
    /\ requests = <<>>
    /\ timers = [filters |-> [wait |-> FiltersWait, pending |-> <<>>, calls |-> 0],
                 sorts |-> [wait |-> SortsWait, pending |-> <<>>, calls |-> 0],
                 search |-> [wait |-> SearchWait, pending |-> <<>>, calls |-> 0]]
    /\ events = 0
    /\ last = Call("init", FALSE, <<>>)

\* useEffect(() => dataStore.fetchData(), []) of the table component
FetchData ==
    /\ UIEvent
    /\ Commit(fetchData(World))
    /\ last' = Call("fetchData", isFetching, <<>>)
    /\ UNCHANGED timers

SetPagination ==
    /\ UIEvent
    /\ \E c \in Currents, ps \in PageSizes, t \in Totals :
        LET p == [current |-> c, pageSize |-> ps, total |-> t] IN
        /\ Commit(setPagination(World, p))
        /\ last' = Call("setPagination", isFetching, <<p>>)
    /\ UNCHANGED timers

SetFilters ==
    /\ UIEvent
    /\ \E f \in FilterValues :
        /\ timers' = [timers EXCEPT !.filters = debounceCall(@, f)]
        /\ last' = Call("setFilters", FALSE, <<f>>)
    /\ UNCHANGED <<store, requests>>

\* mutant: the sorts setter is not wrapped in debounce
SetSortsUndebounced ==
    /\ UIEvent
    /\ \E s \in SortValues :
        /\ Commit(fetchData([World EXCEPT !.sorts = s]))
        /\ last' = Call("setSorts", FALSE, <<s>>)
    /\ UNCHANGED timers

SetSorts ==
    /\ UIEvent
    /\ \E s \in SortValues :
        /\ timers' = [timers EXCEPT !.sorts = debounceCall(@, s)]
        /\ last' = Call("setSorts", FALSE, <<s>>)
    /\ UNCHANGED <<store, requests>>

SetGlobalSearch ==
    /\ UIEvent
    /\ \E s \in SearchValues :
        /\ timers' = [timers EXCEPT !.search = debounceCall(@, s)]
        /\ last' = Call("setGlobalSearch", FALSE, <<s>>)
    /\ UNCHANGED <<store, requests>>

\* the filters timer fires: the function given to debounce runs
FiltersTimeout ==
    /\ timers.filters.pending # <<>>
    /\ LET f == timers.filters.pending[1] IN
       /\ Commit(onFilters(World, f))
       /\ last' = Fired("onFilters", isFetching, <<f>>, timers.filters.calls)
    /\ timers' = [timers EXCEPT !.filters = debounceFired(@)]
    /\ UNCHANGED events

SortsTimeout ==
    /\ timers.sorts.pending # <<>>
    /\ LET s == timers.sorts.pending[1] IN
       /\ Commit(onSorts(World, s))
       /\ last' = Fired("onSorts", isFetching, <<s>>, timers.sorts.calls)
    /\ timers' = [timers EXCEPT !.sorts = debounceFired(@)]
    /\ UNCHANGED events

SearchTimeout ==
    /\ timers.search.pending # <<>>
    /\ LET s == timers.search.pending[1] IN
       /\ Commit(onGlobalSearch(World, s))
       /\ last' = Fired("onGlobalSearch", isFetching, <<s>>, timers.search.calls)
    /\ timers' = [timers EXCEPT !.search = debounceFired(@)]
    /\ UNCHANGED events

\* mutant: the trigger does not look at the loading flag
ShouldLoadMoreWhileLoading(remainder) ==
    /\ remainder < NearBottom
    /\ Len(data) < (IF pagination.total # Unset THEN pagination.total ELSE 0)

\* the condition of handleScroll of the table component
ShouldLoadMore(remainder) ==
    /\ remainder < NearBottom
    /\ ~loading
    /\ Len(data) < (IF pagination.total # Unset THEN pagination.total ELSE 0)

HandleScroll ==
    /\ UIEvent
    /\ \E remainder \in Remainders :
        LET pageSize == pagination.pageSize
            fire == ShouldLoadMore(remainder) IN
        /\ Commit(IF fire
                  THEN handleScrollLoad(World, Len(data),
                                        IF pageSize # Unset THEN pageSize
                                                            ELSE DefaultPageSize)
                  ELSE World)
        /\ last' = Call("handleScroll", ~fire, <<remainder>>)
    /\ UNCHANGED timers

\* A request's two awaits, fetch(...) and response.json(), follow one another
\* with no store access between them: its answer is one step.

Failed(i, message) ==
    LET r == requests[i]
        w == [World EXCEPT !.requests = Remove(@, i)] IN
    /\ Commit(IF r.kind = "full" THEN fetchDataCatch(w, message)
                                 ELSE handleScrollLoadCatch(w, message))
    /\ last' = Event(IF r.kind = "full" THEN "fetchFail" ELSE "scrollFail",
                     FALSE, <<>>, r, NoResult)
    /\ UNCHANGED <<timers, events>>

\* `await fetch(...)` resolves with a response whose ok is false
FetchNotOk == \E i \in 1..Len(requests) : Failed(i, HttpStatusError)

\* `await fetch(...)` rejects
FetchRejected == \E i \in 1..Len(requests) : Failed(i, NetworkError)

\* `await response.json()` rejects
JsonRejected == \E i \in 1..Len(requests) : Failed(i, DecodeError)

\* `await response.json()` resolves with {data, total}
JsonResolved ==
    \E i \in 1..Len(requests) :
        \E result \in Answers(requests[i]) :
            LET r == requests[i]
                w == [World EXCEPT !.requests = IF r.kind = "full"
                                                  THEN Superseded(Remove(@, i))
                                                  ELSE Remove(@, i)] IN
            /\ Commit(IF r.kind = "full" THEN fetchDataDone(w, result)
                                         ELSE handleScrollLoadDone(w, result))
            /\ last' = Event(IF r.kind = "full" THEN "fetchOk" ELSE "scrollOk",
                             FALSE, <<>>, r, result)
            /\ UNCHANGED <<timers, events>>

Next ==
    \/ FetchData
    \/ SetPagination
    \/ SetFilters
    \/ SetSorts
    \/ SetGlobalSearch
    \/ FiltersTimeout
    \/ SortsTimeout
    \/ SearchTimeout
    \/ HandleScroll
    \/ FetchNotOk
    \/ FetchRejected
    \/ JsonRejected
    \/ JsonResolved

Spec == Init /\ [][Next]_vars

-----------------------------------------------------------------------------
(* The same store against a service that honours the limit: a request is  *)
(* answered with the whole page it asked for (as many records as the       *)
(* dataset has from its offset, at most limit). Page sizes go up to more   *)
(* than maxRecords, and the UI-event budget is large enough for a refresh  *)
(* followed by four scroll-loads. Every fetch succeeds.                    *)
(* `last.run` is history: the limits of the requests of the current        *)
(* sequential run, i.e. a full refresh at offset 0 issued with nothing in  *)
(* flight followed by scroll-loads each issued with nothing in flight;     *)
(* <<>> when the store is in no such run.                                  *)

Pages(r) ==
    IF r.limit = Unset
    THEN Answers(r)
    ELSE { [data |-> [k \in 1..Max(0, Min(r.limit, DatasetSize - r.offset)) |-> r.offset + k],
            total |-> DatasetSize] }

WindowEvent ==
    /\ events < MaxWindowEvents
    /\ events' = events + 1

\* the run after an operation that called fetchData
RunAfterFetchData ==
    IF isFetching THEN last.run
    ELSE IF requests = <<>> /\ Newest(requests').offset = 0
         THEN <<Newest(requests').limit>>
         ELSE <<>>

WindowFetchData ==
    /\ WindowEvent
    /\ Commit(fetchData(World))
    /\ last' = [Call("fetchData", isFetching, <<>>) EXCEPT !.run = RunAfterFetchData]
    /\ UNCHANGED timers

WindowSetPagination ==
    /\ WindowEvent
    /\ \E c \in Currents, ps \in WindowPageSizes, t \in Totals :
        LET p == [current |-> c, pageSize |-> ps, total |-> t] IN
        /\ Commit(setPagination(World, p))
        /\ last' = [Call("setPagination", isFetching, <<p>>) EXCEPT !.run = RunAfterFetchData]
    /\ UNCHANGED timers

WindowHandleScroll ==
    /\ WindowEvent
    /\ \E remainder \in Remainders :
        LET pageSize == pagination.pageSize
            limit == IF pageSize # Unset THEN pageSize ELSE DefaultPageSize
            fire == ShouldLoadMore(remainder) IN
        /\ Commit(IF fire THEN handleScrollLoad(World, Len(data), limit) ELSE World)
        /\ last' = [Call("handleScroll", ~fire, <<remainder>>) EXCEPT
                        !.run = IF ~fire THEN last.run
                                ELSE IF requests = <<>> /\ last.run # <<>>
                                     THEN Append(last.run, limit)
                                     ELSE <<>>]
    /\ UNCHANGED timers

WindowJsonResolved ==
    \E i \in 1..Len(requests) :
        \E result \in Pages(requests[i]) :
            LET r == requests[i]
                w == [World EXCEPT !.requests = IF r.kind = "full"
                                                  THEN Superseded(Remove(@, i))
                                                  ELSE Remove(@, i)] IN
            /\ Commit(IF r.kind = "full" THEN fetchDataDone(w, result)
                                         ELSE handleScrollLoadDone(w, result))
            /\ last' = [Event(IF r.kind = "full" THEN "fetchOk" ELSE "scrollOk",
                              FALSE, <<>>, r, result) EXCEPT !.run = last.run]
            /\ UNCHANGED <<timers, events>>

NextWindow ==
    \/ WindowFetchData
    \/ WindowSetPagination
    \/ WindowHandleScroll
    \/ WindowJsonResolved

SpecWindow == Init /\ [][NextWindow]_vars

-----------------------------------------------------------------------------
(* The full-refresh channel alone, against a service whose answers may be  *)
(* of any length up to the whole rest of the dataset (more than maxRecords *)
(* records), whatever limit was asked. Every fetch succeeds.               *)

LongAnswers(r) ==
    { [data |-> [k \in 1..n |-> r.offset + k], total |-> DatasetSize] :
        n \in 0..Max(0, DatasetSize - r.offset) }

RefreshResolved ==
    \E i \in 1..Len(requests) :
        \E result \in LongAnswers(requests[i]) :
            /\ requests[i].kind = "full"
            /\ Commit(fetchDataDone([World EXCEPT !.requests = Superseded(Remove(@, i))],
                                    result))
            /\ last' = Event("fetchOk", FALSE, <<>>, requests[i], result)
            /\ UNCHANGED <<timers, events>>

NextRefresh ==
    \/ FetchData
    \/ SetPagination
    \/ SetFilters
    \/ SetSorts
    \/ SetGlobalSearch
    \/ FiltersTimeout
    \/ SortsTimeout
    \/ SearchTimeout
    \/ RefreshResolved

SpecRefresh == Init /\ [][NextRefresh]_vars

----------------------------------------------------------------------------
(* Properties *)

FullInFlight == Cardinality({i \in DOMAIN requests : requests[i].kind = "full"})
ScrollInFlight == Cardinality({i \in DOMAIN requests : requests[i].kind = "scroll"})
TimersIdle == \A ch \in DOMAIN timers : timers[ch].pending = <<>>

\* the operations that call fetchData
FetchCallers == {"fetchData", "setPagination", "onFilters", "onSorts", "onGlobalSearch"}

\* C1: at most one full-refresh fetch is in flight in every reachable state;
\* a call of fetchData while one is in flight issues no request and changes no
\* store field, and no caller of fetchData adds a request while one is in flight.
C1_SingleFullRefresh ==
    [][ /\ FullInFlight' <= 1
        /\ (isFetching /\ last'.op = "fetchData") => UNCHANGED <<store, requests>>
        /\ (isFetching /\ last'.op \in FetchCallers) => requests' = requests
      ]_vars

C1_Witness ==
    /\ last.op = "fetchData"
    /\ last.dropped
    /\ FullInFlight = 1

\* C2: after a scroll-load completes successfully the cache length is at most
\* maxRecords.
C2_ScrollLoadWithinCapacity ==
    last.op = "scrollOk" => Len(data) <= maxRecords

\* C3: when a scroll-load fails the cache is what it was immediately before
\* handleScrollLoad was called (stated for an attempt no other request overlapped).
C3_FailedScrollLoadLeavesCache ==
    (last.op = "scrollFail" /\ last.req.alone) => data = last.req.before

\* C4: when the debounced sorts setter fires, the page is reset to 1 and the
\* request it triggers carries offset 0.
C4_SortsResetsOffset ==
    last.op = "onSorts" =>
        /\ pagination.current = 1
        /\ ~last.dropped => requests[Len(requests)].offset = 0

\* C5 as claimed: once set by a failed full refresh, the error stays non-null
\* until a full refresh completes successfully.
C5_ErrorUntilSuccess ==
    [][ (error # Null /\ last'.op # "fetchOk") => error' # Null ]_vars

\* C5 as amended: a failed full refresh sets the error; the error then stays
\* non-null until the next full refresh is accepted, whose start clears it, and
\* it is null for as long as a full refresh is in flight.
C5_ErrorUntilNextFetch ==
    [][ /\ last'.op = "fetchFail" => error' # Null
        /\ (error # Null /\ error' = Null) =>
               (last'.op \in FetchCallers /\ ~isFetching /\ isFetching')
        /\ isFetching' => error' = Null
      ]_vars

C5_Witness ==
    /\ error # Null
    /\ last.op = "handleScroll"
    /\ ScrollInFlight = 1

\* C6: every outcome of a full-refresh fetch (success, non-ok status, thrown
\* transport or decode error) leaves isFetching and loading false, and the busy
\* flag is set only while one full-refresh request awaits its answer.
C6_BusyFlagReleased ==
    /\ last.op \in {"fetchOk", "fetchFail"} => (~isFetching /\ ~loading)
    /\ isFetching <=> FullInFlight = 1
    /\ FullInFlight <= 1

C6_Witness ==
    /\ last.op = "fetchFail"
    /\ error = DecodeError
    /\ ~isFetching
    /\ ~loading

Setter == [filters |-> "setFilters", sorts |-> "setSorts", search |-> "setGlobalSearch"]
Handler == [filters |-> "onFilters", sorts |-> "onSorts", search |-> "onGlobalSearch"]
Field == [filters |-> filters, sorts |-> sorts, search |-> globalSearch]

\* C7: on each debounced channel (filters, sorts, search) a call changes no
\* store field and issues no request, and replaces the channel's pending call by
\* its own arguments; the timer's firing runs the handler once, for all the calls
\* since the last firing, with the arguments of the last of them; no operation of
\* another channel touches the channel's timer.
C7_DebounceCoalesces ==
    [][ \A ch \in DOMAIN timers :
          /\ last'.op = Setter[ch] =>
                /\ UNCHANGED <<store, requests>>
                /\ timers'[ch].pending = last'.arg
                /\ timers'[ch].calls = timers[ch].calls + 1
          /\ last'.op = Handler[ch] =>
                /\ timers[ch].calls >= 1
                /\ last'.burst = timers[ch].calls
                /\ last'.arg = timers[ch].pending
                /\ Field[ch]' = last'.arg[1]
                /\ timers'[ch].pending = <<>>
                /\ timers'[ch].calls = 0
          /\ last'.op \notin {Setter[ch], Handler[ch]} => timers'[ch] = timers[ch]
          /\ (timers'[ch].pending = <<>>) <=> (timers'[ch].calls = 0)
      ]_vars

\* a burst of two filter calls answered by one run of the handler, while a call
\* of the search channel is still pending
C7_Witness ==
    /\ last.op = "onFilters"
    /\ last.burst = 2
    /\ filters = last.arg[1]
    /\ timers.search.pending # <<>>
    /\ timers.filters.wait = 300 /\ timers.sorts.wait = 300 /\ timers.search.wait = 500

\* C8: a scroll-load that no other request overlapped, started with the cache
\* length equal to maxRecords and 0 < limit < maxRecords, and answered with
\* exactly limit records, leaves the last (maxRecords - limit) old items followed
\* by the answer's records, maxRecords items in all.
C8_SlidingWindow ==
    ( /\ last.op = "scrollOk"
      /\ last.req.alone
      /\ Len(last.req.before) = maxRecords
      /\ 0 < last.req.limit /\ last.req.limit < maxRecords
      /\ Len(last.result.data) = last.req.limit )
    => /\ data = SubSeq(last.req.before, last.req.limit + 1, maxRecords) \o last.result.data
       /\ Len(data) = maxRecords

C8_Witness ==
    /\ last.op = "scrollOk"
    /\ last.req.alone
    /\ Len(last.req.before) = maxRecords
    /\ 0 < last.req.limit /\ last.req.limit < maxRecords
    /\ Len(last.result.data) = last.req.limit
    /\ data # last.req.before

\* C9: a filters handler that runs while a full refresh is in flight sets the
\* filters but leaves the requests in flight as they are (its fetchData call is
\* dropped); the answer of the request in flight replaces the cache whatever the
\* filters have become, and its completion issues no further request.
C9_SecondMutationDropped ==
    [][ /\ (isFetching /\ last'.op = "onFilters") =>
              /\ last'.dropped
              /\ filters' = last'.arg[1]
              /\ requests' = requests
        /\ last'.op = "fetchOk" =>
              /\ data' = last'.result.data
              /\ requests' = Superseded(Remove(requests, CHOOSE i \in DOMAIN requests :
                                                            requests[i].kind = "full"))
              /\ ~isFetching'
      ]_vars

\* at rest, with a cache fetched under the first mutation's filters while the
\* store holds the second mutation's
C9_Witness ==
    /\ last.op = "fetchOk"
    /\ last.req.filters = <<"name">>
    /\ filters = <<>>
    /\ data = last.result.data /\ data # <<>>
    /\ requests = <<>>
    /\ TimersIdle
    /\ ~isFetching

ScrollOps == {"handleScroll", "scrollOk", "scrollFail"}

\* C11: no step of a scroll-load (its issue by handleScroll, its success, its
\* failure) changes error, loading, isFetching, the page, filters, sorts or
\* search, and a failed scroll-load is only removed from the requests in flight:
\* the store issues no request in its place.
C11_ScrollLoadFrame ==
    [][ /\ last'.op \in ScrollOps =>
              /\ UNCHANGED <<error, loading, isFetching, filters, sorts, globalSearch>>
              /\ pagination'.current = pagination.current
              /\ pagination'.pageSize = pagination.pageSize
        /\ last'.op = "scrollFail" =>
              /\ UNCHANGED store
              /\ \E i \in DOMAIN requests :
                    /\ requests[i] = last'.req
                    /\ requests' = Remove(requests, i)
      ]_vars

\* a scroll-load has failed while the error of an earlier refresh is shown
C11_Witness ==
    /\ last.op = "scrollFail"
    /\ error = HttpStatusError
    /\ requests = <<>>

\* the step called fetchData: the call was dropped when a full refresh was in
\* flight, and otherwise sent one full-refresh request built from the store
\* fields as the step left them
FetchDataCalled ==
    /\ isFetching'
    /\ IF isFetching
       THEN requests' = requests
       ELSE /\ Len(requests') = Len(requests) + 1
            /\ Newest(requests').kind = "full"
            /\ Newest(requests').filters = filters'
            /\ Newest(requests').sorts = sorts'
            /\ Newest(requests').search = globalSearch'

\* C12: the debounced filters and search functions replace their field by the
\* argument, set the page to 1 whatever it was and call fetchData (whose request
\* then carries offset 0); setPagination replaces the whole pagination
\* descriptor by its argument, page included, and calls fetchData in the same
\* step, without a timer.
C12_SetterEffects ==
    [][ /\ last'.op = "onFilters" =>
              /\ filters' = last'.arg[1]
              /\ pagination' = [pagination EXCEPT !.current = 1]
              /\ FetchDataCalled
              /\ ~isFetching => Newest(requests').offset = 0
        /\ last'.op = "onGlobalSearch" =>
              /\ globalSearch' = last'.arg[1]
              /\ pagination' = [pagination EXCEPT !.current = 1]
              /\ FetchDataCalled
              /\ ~isFetching => Newest(requests').offset = 0
        /\ last'.op = "setPagination" =>
              /\ pagination' = last'.arg[1]
              /\ timers' = timers
              /\ FetchDataCalled
      ]_vars

\* the filters function ran with a cache that had been fetched past the first
\* page, and its request asks for offset 0
C12_Witness ==
    /\ last.op = "onFilters"
    /\ ~last.dropped
    /\ data # <<>> /\ data[1] > 1
    /\ pagination.current = 1
    /\ Newest(requests).offset = 0

\* C14: handleScroll issues a scroll-load exactly when the unscrolled remainder
\* is below 100, no full refresh is in flight and the cache is shorter than the
\* known total; the request it sends asks for offset = the cache length at that
\* moment and limit = pageSize (the default page size when unset); otherwise it
\* sends nothing.
C14_ScrollTrigger ==
    [][ last'.op = "handleScroll" =>
          LET remainder == last'.arg[1]
              wanted == /\ remainder < 100
                        /\ FullInFlight = 0
                        /\ Len(data) < pagination.total
          IN  /\ ~last'.dropped <=> wanted
              /\ wanted =>
                    /\ Len(requests') = Len(requests) + 1
                    /\ Newest(requests').kind = "scroll"
                    /\ Newest(requests').offset = Len(data)
                    /\ Newest(requests').limit =
                          (IF pagination.pageSize = Unset THEN DefaultPageSize
                                                          ELSE pagination.pageSize)
              /\ ~wanted => UNCHANGED <<store, requests>>
      ]_vars

\* a near-bottom scroll during a full refresh, with the cache shorter than the
\* total, sent nothing
C14_Witness ==
    /\ last.op = "handleScroll"
    /\ last.arg[1] < 100
    /\ last.dropped
    /\ FullInFlight = 1
    /\ Len(data) < pagination.total

C14_WitnessIssued ==
    /\ last.op = "handleScroll"
    /\ ~last.dropped
    /\ pagination.pageSize = Unset
    /\ Newest(requests).offset = 2
    /\ Newest(requests).limit = DefaultPageSize

HasRepeat(s) == \E i, j \in DOMAIN s : i < j /\ s[i] = s[j]

\* C16: a scroll-load in flight does not hold back the trigger: a near-bottom
\* scroll that meets the trigger's condition sends one more scroll-load, asking
\* for the current cache length, and every scroll-load answer is appended whole
\* to the cache as it is when the answer arrives.
C16_UnguardedScrollLoads ==
    [][ /\ ( /\ last'.op = "handleScroll"
             /\ ScrollInFlight >= 1
             /\ last'.arg[1] < NearBottom /\ ~loading /\ Len(data) < pagination.total )
           => /\ ScrollInFlight' = ScrollInFlight + 1
              /\ Newest(requests').offset = Len(data)
        /\ last'.op = "scrollOk" => data' = data \o last'.result.data
      ]_vars

\* two scroll-loads in flight at once that ask for the same offset
C16_TwoInFlight ==
    /\ ScrollInFlight = 2
    /\ requests[1].offset = requests[2].offset

\* both overlapping scroll-loads have answered and the cache holds a record twice
C16_Witness ==
    /\ last.op = "scrollOk"
    /\ ~last.req.alone
    /\ requests = <<>>
    /\ HasRepeat(data)

\* C19: in every state the loading flag equals the isFetching flag, and both
\* are set exactly while a full refresh is in flight.
C19_LoadingIsBusy ==
    /\ loading = isFetching
    /\ loading <=> FullInFlight >= 1

\* the trigger refused a near-bottom scroll on loading, and a fetchData call
\* would be dropped on isFetching
C19_Witness ==
    /\ last.op = "handleScroll"
    /\ last.arg[1] < NearBottom
    /\ last.dropped
    /\ Len(data) < pagination.total
    /\ loading /\ isFetching

\* C20: a scroll-load answer is never appended to a cache that a full refresh
\* replaced while that scroll-load was in flight (the trigger is refused while
\* a full refresh is in flight, so such a refresh started after the scroll-load
\* was issued).
C20_NoStaleAppend ==
    last.op = "scrollOk" => ~last.req.stale

\* the stale page has been appended behind the first page of the new refresh
C20_StaleAppended ==
    /\ last.op = "scrollOk"
    /\ last.req.stale
    /\ last.result.data # <<>>
    /\ last.req.offset > 0
    /\ data # <<>>
    /\ data[1] = 1
    /\ requests = <<>>

\* the run so far is n fetches of one record (1000 rows) each
RunOfSinglePages(n) == last.run = [k \in 1..n |-> 1]

\* C15: with maxRecords = 3000, pageSize 1000 and a dataset of 5000 records,
\* every fetch succeeding and each scroll-load issued after the previous fetch
\* completed, the n-th fetch (n = 1..4) requested offset (n - 1) * 1000 and
\* left Min(n * 1000, 3000) items, total is the dataset's size, and after the
\* fourth fetch a near-bottom scroll would still fire.
C15_FourFetches ==
    \A n \in 1..4 :
        (last.op \in {"fetchOk", "scrollOk"} /\ RunOfSinglePages(n))
        => /\ last.req.offset = n - 1
           /\ last.req.limit = 1
           /\ Len(data) = Min(n, maxRecords)
           /\ pagination.total = DatasetSize
           /\ n = 4 => ShouldLoadMore(NearBottom - 1)

\* the state after the fourth fetch: the window has slid by one page
C15_Witness ==
    /\ last.op = "scrollOk"
    /\ RunOfSinglePages(4)
    /\ last.req.offset = 3
    /\ data = <<2, 3, 4>>
    /\ pagination.total = DatasetSize

\* C17: a scroll-load started with the cache at or above maxRecords and with
\* limit >= maxRecords keeps no item the cache had, so that after the answer
\* is appended the cache is exactly the answer's data.
C17_TrimClampedToZero ==
    ( /\ last.op = "scrollOk"
      /\ last.req.alone
      /\ Len(last.req.before) >= maxRecords
      /\ last.req.limit >= maxRecords )
    => data = last.result.data

\* limit = maxRecords: slice(-0) is slice(0), every old item is retained
C17_AllRetained ==
    /\ last.op = "scrollOk"
    /\ last.req.alone
    /\ Len(last.req.before) = maxRecords
    /\ last.req.limit = maxRecords
    /\ data = last.req.before \o last.result.data
    /\ last.result.data # <<>>

\* limit > maxRecords: slice(limit - maxRecords) drops only that many items
C17_HeadDropped ==
    /\ last.op = "scrollOk"
    /\ last.req.alone
    /\ Len(last.req.before) > maxRecords
    /\ last.req.limit = maxRecords + 1
    /\ data = SubSeq(last.req.before, 2, Len(last.req.before)) \o last.result.data
    /\ last.result.data # <<>>

\* fetches of the current sequential run that have completed
Completed == Len(last.run) - Len(requests)

\* a run of the dataset in dataset order, no record repeated
Contiguous(s) == \A i \in 1..(Len(s) - 1) : s[i + 1] = s[i] + 1

\* C18: after a successful full refresh at offset 0 followed by successful
\* scroll-loads, each issued after the previous fetch completed, the cache is
\* a contiguous run of the dataset in dataset order with no record repeated.
C18_ContiguousTail ==
    (last.run # <<>> /\ Completed >= 1) => Contiguous(data)

\* pages of 1000: the fifth fetch asks for offset 3000 again, because the
\* cache length stopped growing at maxRecords
C18_PageRepeated ==
    /\ last.op = "scrollOk"
    /\ RunOfSinglePages(5)
    /\ last.req.offset = maxRecords
    /\ data = <<3, 4, 4>>

\* the step issued a full-refresh request
FullIssued == FullInFlight' = FullInFlight + 1

\* C13 as stated: a successful full refresh makes the cache exactly the
\* answer's data and total the answer's total, and the request of a full
\* refresh carries offset = (current - 1) * pageSize, limit = pageSize and the
\* filters, sorts and search of the moment fetchData was called.
C13_OffsetFromPageSize ==
    [][ /\ last'.op = "fetchOk"
            => (data' = last'.result.data /\ pagination'.total = last'.result.total)
        /\ FullIssued
            => /\ Newest(requests').offset = (pagination'.current - 1) * pagination'.pageSize
               /\ Newest(requests').limit = pagination'.pageSize
               /\ Newest(requests').filters = filters'
               /\ Newest(requests').sorts = sorts'
               /\ Newest(requests').search = globalSearch' ]_vars

\* C13 amended: as above, with offset = ((current or 1) - 1) * (pageSize or
\* 1000): an unset page size counts as the default in the offset, while limit
\* is the page size as stored (unset when the page size is unset).
C13_RefreshReplaces ==
    [][ /\ last'.op = "fetchOk"
            => (data' = last'.result.data /\ pagination'.total = last'.result.total)
        /\ FullIssued
            => LET current == pagination'.current
                   pageSize == pagination'.pageSize IN
               /\ Newest(requests').offset =
                      ((IF current # Unset THEN current ELSE 1) - 1)
                          * (IF pageSize # Unset THEN pageSize ELSE DefaultPageSize)
               /\ Newest(requests').limit = pageSize
               /\ Newest(requests').filters = filters'
               /\ Newest(requests').sorts = sorts'
               /\ Newest(requests').search = globalSearch' ]_vars

\* an answer longer than maxRecords has replaced a non-empty cache, for a
\* request issued on page 2 with no page size and non-default query state
C13_Witness ==
    /\ last.op = "fetchOk"
    /\ last.req.before # <<>>
    /\ Len(last.result.data) > maxRecords
    /\ data = last.result.data
    /\ last.req.limit = Unset
    /\ last.req.offset = DefaultPageSize
    /\ last.req.search # ""

====
